---- MODULE Spec2Model ----
(***************************************************************************)
(* Model of voice-agent-analytics:                                         *)
(*   extract_thread_messages.py            (the thread loader)             *)
(*   extract_pydantic_structured_outputs.py (schema + structured extractor)*)
(* Text is modelled as a sequence of one-character strings, so that        *)
(* joining and stripping are computed character by character.              *)
(***************************************************************************)
EXTENDS Integers, Sequences, FiniteSets, TLC

VARIABLES
    env,                 \* names of the environment variables that are set (os.environ after load_dotenv)
    pc,                  \* position of the running program
    error,               \* the uncaught exception that ended the program, or "none"
    storage,             \* the thread held by the storage service and how a request for it ends
    output_file,         \* output_file argument of the last loader call
    file,                \* the destination file of the loader on disk
    console,             \* what the loader printed (tags of its print statements)
    ret,                 \* outcome of the last extract_thread_messages call
    loaderCalls,         \* invocations of extract_thread_messages
    storageRequests,     \* project.agents.messages.list requests issued
    request,             \* the last request sent to the completion service
    completion,          \* the completion service's answer to that request
    structured,          \* outcome of the last extract_structured_data call
    extractorCalls,      \* invocations of extract_structured_data
    completionRequests,  \* client.beta.chat.completions.parse requests issued
    saved                \* contents written to structured_output.json, or the not-written marker

vars == <<env, pc, error, storage, output_file, file, console, ret, loaderCalls,
          storageRequests, request, completion, structured, extractorCalls,
          completionRequests, saved>>

loaderVars == <<storage, output_file, file, console, ret, loaderCalls, storageRequests>>
extractorVars == <<request, completion, structured, extractorCalls, completionRequests, saved>>

----------------------------------------------------------------------------
(* Bounds of the model *)

MaxMsgs == 3        \* raw records in one storage response
MaxFrags == 3       \* content fragments in one storage response, over all its records
MaxSize == 5        \* records plus content fragments in one storage response
MaxDelivered == 1   \* records, and content fragments, of a thread whose retrieval fails
RunMsgs == 1        \* raw records of the thread read by the command-line run
Overshoot == 1      \* how far past a declared limit the completion service's values go

----------------------------------------------------------------------------
(* Text *)

Whitespace == {" ", "\t", "\n"}

\* the texts a fragment carries: empty, whitespace only, not blank
Texts == {<<>>, <<" ">>, <<"a">>, <<"a", "\n", "a">>}

\* str.strip(): drop leading and trailing whitespace
RECURSIVE LStrip(_)
LStrip(s) ==
    IF s = <<>> THEN s
    ELSE IF Head(s) \in Whitespace THEN LStrip(Tail(s)) ELSE s

RECURSIVE RStrip(_)
RStrip(s) ==
    IF s = <<>> THEN s
    ELSE IF s[Len(s)] \in Whitespace THEN RStrip(SubSeq(s, 1, Len(s) - 1)) ELSE s

Strip(s) == RStrip(LStrip(s))

\* " ".join(parts)
RECURSIVE Join(_)
Join(parts) ==
    IF parts = <<>> THEN <<>>
    ELSE IF Len(parts) = 1 THEN parts[1]
    ELSE parts[1] \o <<" ">> \o Join(Tail(parts))

Reverse(s) == [i \in 1..Len(s) |-> s[Len(s) + 1 - i]]

----------------------------------------------------------------------------
(* The storage service: raw message records and the outcome of a request *)

Roles == {"user", "assistant", "system"}

\* a content item: hasText says whether it has a 'text' attribute
TextFragments == {[hasText |-> TRUE, type |-> "text", value |-> t] : t \in Texts}
OtherFragments == {[hasText |-> FALSE, type |-> "image_file", value |-> <<>>],
                   [hasText |-> FALSE, type |-> "text", value |-> <<>>]}
Fragments == TextFragments \cup OtherFragments

Causes == {"network", "auth", "not_found"}

\* records: the thread's message records in wire order (newest first);
\* fail = "none": the request succeeds and every record is enumerated;
\* "request": the list call fails; "enumeration": list(messages) fails part-way
NoStorage == [fail |-> "none", cause |-> "none", records |-> <<>>]

RECURSIVE TotalFragments(_)
TotalFragments(records) ==
    IF records = <<>> THEN 0
    ELSE Len(Head(records).content) + TotalFragments(Tail(records))

----------------------------------------------------------------------------
(* extract_thread_messages *)

\* the elif branch reads content_item.text on an item that has no 'text' attribute
FragmentRaises(content_item) ==
    ~content_item.hasText /\ content_item.type = "text"

MessageRaises(message) ==
    \E i \in 1..Len(message.content) : FragmentRaises(message.content[i])

RECURSIVE ContentParts(_)
ContentParts(content) ==
    IF content = <<>> THEN <<>>
    ELSE IF Head(content).hasText
         THEN <<Head(content).value>> \o ContentParts(Tail(content))
         ELSE ContentParts(Tail(content))

FullContentUnskipped(message) ==
    Strip(Join([i \in 1..Len(message.content) |->
                    IF message.content[i].hasText THEN message.content[i].value ELSE <<>>]))

FullContent(message) == Strip(Join(ContentParts(message.content)))

RECURSIVE Structure(_)
Structure(messages) ==
    IF messages = <<>> THEN <<>>
    ELSE LET message == Head(messages)
             full_content == FullContent(message)
         IN  IF full_content # <<>>
             THEN <<[role |-> message.role, content |-> full_content]>>
                      \o Structure(Tail(messages))
             ELSE Structure(Tail(messages))

StructuredMessagesUnreversed(records) == Structure(records)
StructuredMessagesUnfiltered(records) ==
    [i \in 1..Len(records) |->
        [role |-> Reverse(records)[i].role, content |-> FullContent(Reverse(records)[i])]]

StructuredMessages(records) == Structure(Reverse(records))

NoRet == [status |-> "none", exc |-> "none", value |-> <<>>]

LoaderOutcomeSwallowing(response) ==
    IF response.fail # "none"
    THEN [status |-> "returned", exc |-> "none", value |-> <<>>]
    ELSE IF \E i \in 1..Len(response.records) : MessageRaises(response.records[i])
    THEN [status |-> "raised", exc |-> "AttributeError", value |-> <<>>]
    ELSE [status |-> "returned", exc |-> "none",
          value |-> StructuredMessages(response.records)]

\* the try block: what the call returns or raises
LoaderOutcome(response) ==
    IF response.fail # "none"
    THEN [status |-> "raised", exc |-> response.cause, value |-> <<>>]
    ELSE IF \E i \in 1..Len(response.records) : MessageRaises(response.records[i])
    THEN [status |-> "raised", exc |-> "AttributeError", value |-> <<>>]
    ELSE [status |-> "returned", exc |-> "none",
          value |-> StructuredMessages(response.records)]

NoPath == "None"
Truthy(path) == path \notin {NoPath, ""}

\* the characters of a role name
RoleText(role) ==
    CASE role = "user" -> <<"u", "s", "e", "r">>
      [] role = "assistant" -> <<"a", "s", "s", "i", "s", "t", "a", "n", "t">>
      [] role = "system" -> <<"s", "y", "s", "t", "e", "m">>

JsonEscapeRaw(c) == <<c>>

\* json.dumps on one character of a string (ensure_ascii=False)
JsonEscape(c) ==
    CASE c = "\n" -> <<"\\", "n">>
      [] c = "\t" -> <<"\\", "t">>
      [] c = "\"" -> <<"\\", "\"">>
      [] c = "\\" -> <<"\\", "\\">>
      [] OTHER -> <<c>>

RECURSIVE JsonEscapeAll(_)
JsonEscapeAll(s) ==
    IF s = <<>> THEN <<>> ELSE JsonEscape(Head(s)) \o JsonEscapeAll(Tail(s))

\* json.dumps on a string
JsonString(s) == <<"\"">> \o JsonEscapeAll(s) \o <<"\"">>

\* json.dumps(msg, ensure_ascii=False) + '\n' for msg = {"role": ..., "content": ...}
JsonLine(msg) ==
    <<"{">> \o JsonString(<<"r", "o", "l", "e">>) \o <<":", " ">>
        \o JsonString(RoleText(msg.role)) \o <<",", " ">>
        \o JsonString(<<"c", "o", "n", "t", "e", "n", "t">>) \o <<":", " ">>
        \o JsonString(msg.content) \o <<"}">> \o <<"\n">>

\* the text written by the loop over structured_messages
RECURSIVE WriteAll(_)
WriteAll(msgs) == IF msgs = <<>> THEN <<>> ELSE JsonLine(Head(msgs)) \o WriteAll(Tail(msgs))

Absent == [exists |-> FALSE, text |-> <<>>]
OldFile == [exists |-> TRUE, text |-> <<"o", "l", "d", "\n">>]

FileAfterOpenedFirst(outcome, path, before) ==
    IF Truthy(path)
    THEN [exists |-> TRUE,
          text |-> IF outcome.status = "returned" THEN WriteAll(outcome.value) ELSE <<>>]
    ELSE before

\* the destination file after the call: open(output_file, 'w') creates or truncates
\* it, and it is reached only when the messages were retrieved and a path was given
FileAfter(outcome, path, before) ==
    IF outcome.status = "returned" /\ Truthy(path)
    THEN [exists |-> TRUE, text |-> WriteAll(outcome.value)]
    ELSE before

ExtractThreadMessages(response, path) ==
    LET outcome == LoaderOutcome(response)
        written == outcome.status = "returned" /\ Truthy(path)
    IN  /\ output_file' = path
        /\ loaderCalls' = loaderCalls + 1
        /\ storageRequests' = storageRequests + 1
        /\ ret' = outcome
        /\ file' = FileAfter(outcome, path, file)
        /\ console' = console
                        \o (IF written THEN <<"Messages saved">> ELSE <<>>)
                        \o (IF outcome.status = "raised"
                            THEN <<"Error extracting messages">> ELSE <<>>)

----------------------------------------------------------------------------
(* The schema: ConversationAnalytics and its enumerations *)

RequestType == {"incident", "service_request", "general_inquiry", "out_of_scope"}

IncidentCategory ==
    {"uniflow_printer", "citrix", "multifactor_authentication", "ad_account",
     "hardware", "software_application", "other", "not_applicable"}

ServiceRequestType ==
    {"sap_access", "email_shared_drive", "business_app_access", "network_access",
     "general_catalog", "other_form", "not_applicable"}

IssueSummaryMaxLength == 200
ResolutionProvidedMaxLength == 300
IssueKeywordsDocumentedMax == 5
SatisfactionScoreGe == 1
SatisfactionScoreLe == 5
QualityScoreGe == 1
QualityScoreLe == 5

\* Optional[str]: None, or a string
None == [isNone |-> TRUE, value |-> <<>>]
Some(v) == [isNone |-> FALSE, value |-> v]

ValidRequestType(v) == v \in RequestType
ValidIncidentCategory(v) == v \in IncidentCategory
ValidServiceRequestType(v) == v \in ServiceRequestType
ValidIssueSummary(v) == Len(v) <= IssueSummaryMaxLength
\* List[str] with default_factory=list: the field declares no length constraint
ValidIssueKeywords(v) == TRUE
ValidResolutionProvided(v) == v.isNone \/ Len(v.value) <= ResolutionProvidedMaxLength

ValidSatisfactionScoreUnbounded(v) == v >= SatisfactionScoreGe
ValidSatisfactionScore(v) == v >= SatisfactionScoreGe /\ v <= SatisfactionScoreLe
ValidQualityScore(v) == v >= QualityScoreGe /\ v <= QualityScoreLe

\* pydantic validation of the fields, each on its own (the class has no model validator)
Valid(payload) ==
    /\ ValidRequestType(payload.request_type)
    /\ ValidIncidentCategory(payload.incident_category)
    /\ ValidServiceRequestType(payload.service_request_type)
    /\ ValidIssueSummary(payload.issue_summary)
    /\ ValidIssueKeywords(payload.issue_keywords)
    /\ ValidResolutionProvided(payload.resolution_provided)
    /\ ValidSatisfactionScore(payload.satisfaction_score)
    /\ ValidQualityScore(payload.quality_score)

----------------------------------------------------------------------------
(* The completion service: what it answers to a parse request *)

Str(n) == [i \in 1..n |-> "x"]

BasePayload ==
    [request_type |-> "incident",
     incident_category |-> "citrix",
     service_request_type |-> "not_applicable",
     issue_summary |-> Str(1),
     issue_keywords |-> <<Str(1)>>,
     resolution_provided |-> None,
     satisfaction_score |-> 3,
     quality_score |-> 3]

LengthsAround(limit) == {0, limit} \cup (limit + 1 .. limit + Overshoot)

\* the classification fields vary; one value is outside the enumeration
EnumPayloads ==
    {[BasePayload EXCEPT !.request_type = r, !.incident_category = i,
                         !.service_request_type = t] :
        r \in RequestType \cup {"complaint"}, i \in IncidentCategory,
        t \in ServiceRequestType}

ScorePayloads ==
    {[BasePayload EXCEPT !.satisfaction_score = s, !.quality_score = q] :
        s \in (SatisfactionScoreGe - Overshoot) .. (SatisfactionScoreLe + Overshoot),
        q \in (QualityScoreGe - Overshoot) .. (QualityScoreLe + Overshoot)}

BoundedPayloads ==
    {[BasePayload EXCEPT !.issue_summary = Str(n),
                         !.issue_keywords = [i \in 1..k |-> Str(1)],
                         !.resolution_provided = r] :
        n \in LengthsAround(IssueSummaryMaxLength),
        k \in 0 .. IssueKeywordsDocumentedMax + Overshoot,
        r \in {None} \cup {Some(Str(m)) : m \in LengthsAround(ResolutionProvidedMaxLength)}}

Payloads == EnumPayloads \cup ScorePayloads \cup BoundedPayloads

\* "error": the request fails; "length": the answer was cut off; "refusal": the
\* model refused, the message carries no parsed record; "content": JSON content
Completions ==
    {[kind |-> k, payload |-> BasePayload] : k \in {"error", "length", "refusal"}}
    \cup {[kind |-> "content", payload |-> p] : p \in Payloads}

NoCompletion == [kind |-> "none", payload |-> BasePayload]

----------------------------------------------------------------------------
(* The persisted JSON document of a record *)

\* JSON values: a type tag and a value
JString(v) == [t |-> "string", v |-> v]
JNumber(n) == [t |-> "number", v |-> n]
JArray(items) == [t |-> "array", v |-> items]
JNull == [t |-> "null", v |-> <<>>]

DumpOptionalNoneAsText(o) ==
    IF o.isNone THEN JString(<<"N", "o", "n", "e">>) ELSE JString(o.value)

\* an Optional[str] field: None is written as null
DumpOptional(o) == IF o.isNone THEN JNull ELSE JString(o.value)

\* record.model_dump_json(): enum members are written as their string values
ModelDumpJson(record) ==
    [request_type |-> JString(record.request_type),
     incident_category |-> JString(record.incident_category),
     service_request_type |-> JString(record.service_request_type),
     issue_summary |-> JString(record.issue_summary),
     issue_keywords |->
        JArray([i \in 1..Len(record.issue_keywords) |-> JString(record.issue_keywords[i])]),
     resolution_provided |-> DumpOptional(record.resolution_provided),
     satisfaction_score |-> JNumber(record.satisfaction_score),
     quality_score |-> JNumber(record.quality_score)]

\* the JSON types the fields accept
WellTyped(doc) ==
    /\ doc.request_type.t = "string"
    /\ doc.incident_category.t = "string"
    /\ doc.service_request_type.t = "string"
    /\ doc.issue_summary.t = "string"
    /\ doc.issue_keywords.t = "array"
    /\ \A i \in 1..Len(doc.issue_keywords.v) : doc.issue_keywords.v[i].t = "string"
    /\ doc.resolution_provided.t \in {"null", "string"}
    /\ doc.satisfaction_score.t = "number"
    /\ doc.quality_score.t = "number"

FieldsOf(doc) ==
    [request_type |-> doc.request_type.v,
     incident_category |-> doc.incident_category.v,
     service_request_type |-> doc.service_request_type.v,
     issue_summary |-> doc.issue_summary.v,
     issue_keywords |-> [i \in 1..Len(doc.issue_keywords.v) |-> doc.issue_keywords.v[i].v],
     resolution_provided |->
        IF doc.resolution_provided.t = "null" THEN None ELSE Some(doc.resolution_provided.v),
     satisfaction_score |-> doc.satisfaction_score.v,
     quality_score |-> doc.quality_score.v]

\* ConversationAnalytics.model_validate_json(doc): the record, or a validation error
ModelValidateJson(doc) ==
    IF WellTyped(doc) /\ Valid(FieldsOf(doc))
    THEN [ok |-> TRUE, record |-> FieldsOf(doc)]
    ELSE [ok |-> FALSE, record |-> BasePayload]

----------------------------------------------------------------------------
(* extract_structured_data *)

NoParsed == [isNone |-> TRUE, record |-> BasePayload]
NoStructured == [status |-> "none", exc |-> "none", parsed |-> NoParsed]

Raised(exc) == [status |-> "raised", exc |-> exc, parsed |-> NoParsed]

\* client.beta.chat.completions.parse(..., response_format=ConversationAnalytics)
\* followed by `return completion.choices[0].message.parsed`
ExtractorOutcome(response) ==
    CASE response.kind = "error" -> Raised("APIError")
      [] response.kind = "length" -> Raised("LengthFinishReasonError")
      [] response.kind = "refusal" ->
            [status |-> "returned", exc |-> "none", parsed |-> NoParsed]
      [] response.kind = "content" ->
            IF Valid(response.payload)
            THEN [status |-> "returned", exc |-> "none",
                  parsed |-> [isNone |-> FALSE, record |-> response.payload]]
            ELSE Raised("ValidationError")

\* str.upper() on the letters that occur in role names
UpperChar(c) ==
    CASE c = "a" -> "A" [] c = "e" -> "E" [] c = "i" -> "I" [] c = "m" -> "M"
      [] c = "n" -> "N" [] c = "r" -> "R" [] c = "s" -> "S" [] c = "t" -> "T"
      [] c = "u" -> "U" [] c = "y" -> "Y" [] OTHER -> c

Upper(s) == [i \in 1..Len(s) |-> UpperChar(s[i])]

\* f"{msg['role'].upper()}: {msg['content']}"
TranscriptLine(msg) == Upper(RoleText(msg.role)) \o <<":", " ">> \o msg.content

\* "\n".join(lines)
RECURSIVE JoinLines(_)
JoinLines(lines) ==
    IF lines = <<>> THEN <<>>
    ELSE IF Len(lines) = 1 THEN lines[1]
    ELSE lines[1] \o <<"\n">> \o JoinLines(Tail(lines))

ConversationText(conversation_messages) ==
    JoinLines([i \in 1..Len(conversation_messages) |->
                    TranscriptLine(conversation_messages[i])])

NoRequest == [sent |-> FALSE, conversation_text |-> <<>>]

KeyError(name) == <<"KeyError", name>>
NoError == <<"none", "none">>

ExtractStructuredData(conversation_messages, response) ==
    /\ extractorCalls' = extractorCalls + 1
    /\ IF "MODEL_DEPLOYMENT_NAME" \notin env
       THEN \* os.environ[...] raises while the arguments of parse are evaluated
            /\ structured' = Raised("KeyError")
            /\ UNCHANGED <<request, completion, completionRequests>>
       ELSE /\ request' = [sent |-> TRUE,
                           conversation_text |-> ConversationText(conversation_messages)]
            /\ completion' = response
            /\ completionRequests' = completionRequests + 1
            /\ structured' = ExtractorOutcome(response)

----------------------------------------------------------------------------
(* The command-line run of extract_pydantic_structured_outputs.py *)

RequiredVars ==
    {"AZURE_AI_PROJECT", "AZURE_OPENAI_ENDPOINT", "AZURE_OPENAI_API_KEY",
     "AZURE_OPENAI_API_VERSION", "MODEL_DEPLOYMENT_NAME"}

RunRecords == [role : Roles, content : {<<>>} \cup {<<content_item>> : content_item \in Fragments}]
RunThreads == UNION {[1..n -> RunRecords] : n \in 0..RunMsgs}

RunResponses ==
    {[fail |-> "none", cause |-> "none", records |-> l] : l \in RunThreads}
    \cup {[fail |-> k, cause |-> c, records |-> <<>>] :
            k \in {"request", "enumeration"}, c \in Causes}

NotSaved == [written |-> FALSE, document |-> ModelDumpJson(BasePayload)]

Init ==
    /\ env \in SUBSET RequiredVars
    /\ pc = "start"
    /\ error = NoError
    /\ storage = NoStorage
    /\ output_file = NoPath
    /\ file = Absent
    /\ console = <<>>
    /\ ret = NoRet
    /\ loaderCalls = 0
    /\ storageRequests = 0
    /\ request = NoRequest
    /\ completion = NoCompletion
    /\ structured = NoStructured
    /\ extractorCalls = 0
    /\ completionRequests = 0
    /\ saved = NotSaved

\* line 9: importing extract_thread_messages runs its module-level code
ImportThreadLoader ==
    /\ pc = "start"
    /\ IF "AZURE_AI_PROJECT" \in env
       THEN pc' = "imported" /\ error' = error
       ELSE pc' = "crashed" /\ error' = KeyError("AZURE_AI_PROJECT")
    /\ UNCHANGED env
    /\ UNCHANGED loaderVars
    /\ UNCHANGED extractorVars

\* the keyword arguments of AzureOpenAI(...) are read in order
ClientVars == <<"AZURE_OPENAI_ENDPOINT", "AZURE_OPENAI_API_KEY", "AZURE_OPENAI_API_VERSION">>

CreateClient ==
    /\ pc = "imported"
    /\ IF \A i \in 1..Len(ClientVars) : ClientVars[i] \in env
       THEN pc' = "main" /\ error' = error
       ELSE LET first == CHOOSE i \in 1..Len(ClientVars) :
                            /\ ClientVars[i] \notin env
                            /\ \A j \in 1..(i - 1) : ClientVars[j] \in env
            IN  pc' = "crashed" /\ error' = KeyError(ClientVars[first])
    /\ UNCHANGED env
    /\ UNCHANGED loaderVars
    /\ UNCHANGED extractorVars

\* sample_conversation = extract_thread_messages(thread_id=...)
MainLoadThread ==
    /\ pc = "main"
    /\ \E response \in RunResponses :
        /\ storage' = response
        /\ ExtractThreadMessages(response, NoPath)
    /\ IF ret'.status = "raised"
       THEN pc' = "crashed" /\ error' = <<"loader", ret'.exc>>
       ELSE pc' = "loaded" /\ error' = error
    /\ UNCHANGED env
    /\ UNCHANGED extractorVars

\* structured_data = extract_structured_data(sample_conversation)
MainExtract ==
    /\ pc = "loaded"
    /\ \E response \in Completions : ExtractStructuredData(ret.value, response)
    /\ IF structured'.status = "raised"
       THEN /\ pc' = "crashed"
            /\ error' = IF structured'.exc = "KeyError"
                         THEN KeyError("MODEL_DEPLOYMENT_NAME")
                         ELSE <<"extractor", structured'.exc>>
       ELSE pc' = "extracted" /\ error' = error
    /\ console' = Append(console, "Extracting structured data")
    /\ UNCHANGED <<env, saved, storage, output_file, file, ret, loaderCalls, storageRequests>>

\* print and write structured_data.model_dump_json(indent=2)
MainSave ==
    /\ pc = "extracted"
    /\ IF structured.parsed.isNone
       THEN /\ pc' = "crashed"
            /\ error' = <<"main", "AttributeError">>
            /\ console' = Append(console, "RESULTS")
            /\ UNCHANGED saved
       ELSE /\ pc' = "done"
            /\ error' = error
            /\ saved' = [written |-> TRUE, document |-> ModelDumpJson(structured.parsed.record)]
            /\ console' = console \o <<"RESULTS", "document", "Structured data saved">>
    /\ UNCHANGED <<env, storage, output_file, file, ret, loaderCalls, storageRequests,
                   request, completion, structured, extractorCalls, completionRequests>>

Next == ImportThreadLoader \/ CreateClient \/ MainLoadThread \/ MainExtract \/ MainSave

Spec == Init /\ [][Next]_vars

----------------------------------------------------------------------------
(* The loader called once on a thread of the storage service *)

OutputFiles == {NoPath, "conversation_thread.jsonl"}

InitLoader ==
    /\ env = {"AZURE_AI_PROJECT"}
    /\ pc = "ready"
    /\ error = NoError
    /\ storage = NoStorage
    /\ output_file = NoPath
    /\ file \in {Absent, OldFile}
    /\ console = <<>>
    /\ ret = NoRet
    /\ loaderCalls = 0
    /\ storageRequests = 0
    /\ request = NoRequest
    /\ completion = NoCompletion
    /\ structured = NoStructured
    /\ extractorCalls = 0
    /\ completionRequests = 0
    /\ saved = NotSaved

\* a message is posted to the thread: it becomes the first record on the wire
PostMessage ==
    /\ pc = "ready"
    /\ storage.fail = "none"
    /\ Len(storage.records) < MaxMsgs
    /\ Len(storage.records) + TotalFragments(storage.records) < MaxSize
    /\ \E role \in Roles :
        storage' = [storage EXCEPT !.records = <<[role |-> role, content |-> <<>>]>> \o @]
    /\ UNCHANGED <<env, pc, error, output_file, file, console, ret, loaderCalls,
                   storageRequests>>
    /\ UNCHANGED extractorVars

\* the newest message gets one more content item
AttachFragment ==
    /\ pc = "ready"
    /\ storage.fail = "none"
    /\ storage.records # <<>>
    /\ TotalFragments(storage.records) < MaxFrags
    /\ Len(storage.records) + TotalFragments(storage.records) < MaxSize
    /\ \E content_item \in Fragments :
        storage' = [storage EXCEPT !.records[1].content = Append(@, content_item)]
    /\ UNCHANGED <<env, pc, error, output_file, file, console, ret, loaderCalls,
                   storageRequests>>
    /\ UNCHANGED extractorVars

\* the storage service will fail the request for this thread
Outage ==
    /\ pc = "ready"
    /\ storage.fail = "none"
    /\ Len(storage.records) <= MaxDelivered
    /\ TotalFragments(storage.records) <= MaxDelivered
    /\ \E kind \in {"request", "enumeration"}, cause \in Causes :
        storage' = [storage EXCEPT !.fail = kind, !.cause = cause]
    /\ UNCHANGED <<env, pc, error, output_file, file, console, ret, loaderCalls,
                   storageRequests>>
    /\ UNCHANGED extractorVars

CallLoader ==
    /\ pc = "ready"
    /\ \E path \in OutputFiles : ExtractThreadMessages(storage, path)
    /\ pc' = "called"
    /\ UNCHANGED <<env, error, storage>>
    /\ UNCHANGED extractorVars

NextLoader == PostMessage \/ AttachFragment \/ Outage \/ CallLoader

SpecLoader == InitLoader /\ [][NextLoader]_vars

----------------------------------------------------------------------------
(* Properties of the thread loader, checked under SpecLoader *)

Returned == pc = "called" /\ ret.status = "returned"

\* a raw record none of whose text items holds a character other than whitespace
Blank(message) ==
    \A i \in 1..Len(message.content) :
        message.content[i].hasText =>
            \A j \in 1..Len(message.content[i].value) :
                message.content[i].value[j] \in Whitespace

Kept(records) == {i \in 1..Len(records) : ~Blank(records[i])}

\* the storage index of the k-th message of the output, if the output is the
\* kept records in reversed storage order
SourceIndex(records, k) ==
    CHOOSE i \in Kept(records) : Cardinality({j \in Kept(records) : j > i}) = k - 1

\* C1: the returned sequence is the retained records in reversed storage order:
\* the k-th returned message comes from the retained record with exactly k-1
\* retained records after it on the wire.
C1_ReversedStorageOrder ==
    Returned =>
        /\ Len(ret.value) = Cardinality(Kept(storage.records))
        /\ \A k \in 1..Len(ret.value) :
            LET message == storage.records[SourceIndex(storage.records, k)]
            IN  /\ ret.value[k].role = message.role
                /\ ret.value[k].content = FullContent(message)

C1_Witness ==
    /\ Returned
    /\ Len(storage.records) = 3
    /\ Blank(storage.records[2])
    /\ Len(ret.value) = 2
    /\ ret.value[1] # ret.value[2]

\* C2: no returned message has empty content after trimming, and the number of
\* returned messages is the number of raw records whose text is not all whitespace.
C2_NoEmptyContent ==
    Returned =>
        /\ \A k \in 1..Len(ret.value) : Strip(ret.value[k].content) # <<>>
        /\ Len(ret.value) = Cardinality(Kept(storage.records))

C2_Witness ==
    /\ Returned
    /\ Len(storage.records) = 3
    /\ \E i \in 1..3 : storage.records[i].content = <<>>
    /\ \E i \in 1..3 :
            /\ Len(storage.records[i].content) = 1
            /\ storage.records[i].content[1].value = <<" ">>
    /\ Len(ret.value) = 1

\* C4: a failed storage request makes the call raise the original cause; no
\* message sequence is returned.
C4_FailureReraised ==
    (pc = "called" /\ storage.fail # "none") =>
        /\ ret.status = "raised"
        /\ ret.exc = storage.cause
        /\ ret.value = <<>>

C4_Witness ==
    /\ pc = "called"
    /\ storage.fail = "enumeration"
    /\ storage.cause = "auth"
    /\ storage.records # <<>>
    /\ ~Blank(storage.records[1])
    /\ ret.status = "raised"

\* C10: every returned message has role user or assistant.
C10_RolesUserOrAssistant ==
    Returned => \A k \in 1..Len(ret.value) : ret.value[k].role \in {"user", "assistant"}

----------------------------------------------------------------------------
(* Properties of the schema and of the command-line run, checked under Spec *)

RecordReturned == structured.status = "returned" /\ ~structured.parsed.isNone

ContentAnswered == extractorCalls = 1 /\ completion.kind = "content"

\* C3: when the completion service's answer carries no parsed record (a refusal),
\* extract_structured_data fails instead of returning normally.
C3_RefusalFails ==
    (extractorCalls = 1 /\ completion.kind = "refusal") => structured.status = "raised"

\* C5: every record produced has both scores in 1..5, and content with a score
\* of 0 or less or 6 or more is rejected: no record is returned or saved.
C5_ScoresInRange ==
    /\ RecordReturned =>
            /\ structured.parsed.record.satisfaction_score \in 1..5
            /\ structured.parsed.record.quality_score \in 1..5
    /\ saved.written =>
            /\ saved.document.satisfaction_score.v \in 1..5
            /\ saved.document.quality_score.v \in 1..5
    /\ (/\ ContentAnswered
        /\ \/ completion.payload.satisfaction_score \notin 1..5
           \/ completion.payload.quality_score \notin 1..5)
        => (structured.status = "raised" /\ structured.parsed.isNone /\ ~saved.written)

C5_Witness ==
    /\ ContentAnswered
    /\ completion.payload.satisfaction_score = 6
    /\ completion.payload.quality_score = 5
    /\ structured.status = "raised"
    /\ structured.exc = "ValidationError"
    /\ pc = "crashed"

\* C6: no record produced exceeds a documented maximum: at most 5 keywords, a
\* summary of at most 200 characters, a resolution of at most 300 characters.
C6_BoundedFields ==
    RecordReturned =>
        /\ Len(structured.parsed.record.issue_keywords) <= 5
        /\ Len(structured.parsed.record.issue_summary) <= 200
        /\ \/ structured.parsed.record.resolution_provided.isNone
           \/ Len(structured.parsed.record.resolution_provided.value) <= 300

\* C7: in every record returned, a request that is not an incident has incident
\* category not_applicable, and an incident has service request type not_applicable.
C7_SentinelConsistency ==
    RecordReturned =>
        /\ structured.parsed.record.request_type # "incident"
                => structured.parsed.record.incident_category = "not_applicable"
        /\ structured.parsed.record.request_type = "incident"
                => structured.parsed.record.service_request_type = "not_applicable"

\* C8: a run that ends on a missing configuration variable has issued no request
\* to the storage service or to the completion service.
C8_ConfigurationFailsBeforeNetwork ==
    (pc = "crashed" /\ error[1] = "KeyError") =>
        (storageRequests = 0 /\ completionRequests = 0)

\* C9: every invocation of extract_thread_messages has issued exactly one storage
\* request and every invocation of extract_structured_data exactly one completion
\* request.
C9_OneRequestPerInvocation ==
    /\ storageRequests = loaderCalls
    /\ completionRequests = extractorCalls

RoleName(role) ==
    CASE role = "user" -> <<"U", "S", "E", "R">>
      [] role = "assistant" -> <<"A", "S", "S", "I", "S", "T", "A", "N", "T">>
      [] role = "system" -> <<"S", "Y", "S", "T", "E", "M">>

\* the entry of one message: ROLE, colon, space, content
Entry(msg) == RoleName(msg.role) \o <<":", " ">> \o msg.content

\* the number of characters before the i-th entry: the entries before it and one
\* newline after each of them
RECURSIVE EntryStart(_, _)
EntryStart(msgs, i) ==
    IF i = 1 THEN 0 ELSE EntryStart(msgs, i - 1) + Len(Entry(msgs[i - 1])) + 1

IsTranscriptOf(text, msgs) ==
    /\ Len(text) = IF msgs = <<>> THEN 0
                   ELSE EntryStart(msgs, Len(msgs)) + Len(Entry(msgs[Len(msgs)]))
    /\ \A i \in 1..Len(msgs) :
            /\ SubSeq(text, EntryStart(msgs, i) + 1,
                      EntryStart(msgs, i) + Len(Entry(msgs[i]))) = Entry(msgs[i])
            /\ i < Len(msgs) => text[EntryStart(msgs, i) + Len(Entry(msgs[i])) + 1] = "\n"

\* C13: every invocation of extract_structured_data submits a request whose
\* transcript has one entry per message in input order (ROLE in upper case, ': ',
\* the content unchanged), entries separated by one newline, nothing before the
\* first or after the last; for the empty sequence the transcript is empty and the
\* request is submitted all the same.
C13_TranscriptSubmitted ==
    extractorCalls = 1 =>
        /\ request.sent
        /\ IsTranscriptOf(request.conversation_text, ret.value)
        /\ ret.value = <<>> => request.conversation_text = <<>>

\* the values of the items of a record that carry text, in the record's order
TextsOf(message) ==
    LET items == SelectSeq(message.content, LAMBDA item : item.hasText)
    IN  [i \in 1..Len(items) |-> items[i].value]

\* the number of characters of the first n of the texts
RECURSIVE LenSum(_, _)
LenSum(texts, n) == IF n = 0 THEN 0 ELSE LenSum(texts, n - 1) + Len(texts[n])

\* the texts laid out one after the other with one space after each but the last:
\* the i-th text starts after the i-1 texts and the i-1 spaces before it
SpacedLen(texts) == IF texts = <<>> THEN 0 ELSE LenSum(texts, Len(texts)) + Len(texts) - 1

SpacedChar(texts, p) ==
    IF \E i \in 1..Len(texts) :
            /\ p > LenSum(texts, i - 1) + (i - 1)
            /\ p <= LenSum(texts, i) + (i - 1)
    THEN LET i == CHOOSE i \in 1..Len(texts) :
                        /\ p > LenSum(texts, i - 1) + (i - 1)
                        /\ p <= LenSum(texts, i) + (i - 1)
         IN  texts[i][p - (LenSum(texts, i - 1) + (i - 1))]
    ELSE " "

\* the laid-out texts between their first and last character that is not whitespace
ExpectedContent(message) ==
    LET texts == TextsOf(message)
        solid == {p \in 1..SpacedLen(texts) : SpacedChar(texts, p) \notin Whitespace}
    IN  IF solid = {} THEN <<>>
        ELSE LET lo == CHOOSE p \in solid : \A q \in solid : p <= q
                 hi == CHOOSE p \in solid : \A q \in solid : q <= p
             IN  [k \in 1..(hi - lo + 1) |-> SpacedChar(texts, lo + k - 1)]

\* C12: the content of the output message of every retained raw record is the
\* record's texts in their order with exactly one space between consecutive texts,
\* without the whitespace at both ends; items without text add nothing.
C12_ContentJoinedAndStripped ==
    Returned =>
        \A i \in Kept(storage.records) :
            LET k == 1 + Cardinality({j \in Kept(storage.records) : j > i})
            IN  /\ k <= Len(ret.value)
                /\ ret.value[k].content = ExpectedContent(storage.records[i])

C12_Witness ==
    /\ Returned
    /\ Len(storage.records) = 1
    /\ Len(storage.records[1].content) = 3
    /\ storage.records[1].content[1].value = <<"a">>
    /\ ~storage.records[1].content[2].hasText
    /\ storage.records[1].content[3].value = <<"a">>
    /\ ret.value = <<[role |-> storage.records[1].role, content |-> <<"a", " ", "a">>]>>

\* the positions of the line ends of a text
Newlines(text) == {p \in 1..Len(text) : text[p] = "\n"}

LineEnd(text, k) ==
    CHOOSE p \in Newlines(text) : Cardinality({q \in Newlines(text) : q < p}) = k - 1

\* the k-th line of a text, without its line end
LineOf(text, k) ==
    SubSeq(text, IF k = 1 THEN 1 ELSE LineEnd(text, k - 1) + 1, LineEnd(text, k) - 1)

\* reading a JSON string body: a backslash and the character after it stand for
\* one character
RECURSIVE Unescaped(_)
Unescaped(s) ==
    IF s = <<>> THEN <<>>
    ELSE IF s[1] = "\\" /\ Len(s) >= 2
         THEN <<CASE s[2] = "n" -> "\n" [] s[2] = "t" -> "\t" [] OTHER -> s[2]>>
                \o Unescaped(SubSeq(s, 3, Len(s)))
         ELSE <<s[1]>> \o Unescaped(Tail(s))

\* a JSON string body does not end before its last character: every quote in it
\* is escaped
RECURSIVE Unbroken(_)
Unbroken(s) ==
    IF s = <<>> THEN TRUE
    ELSE IF s[1] = "\\" THEN Len(s) >= 2 /\ Unbroken(SubSeq(s, 3, Len(s)))
    ELSE s[1] # "\"" /\ Unbroken(Tail(s))

\* the start of a JSON object whose first key is role and whose second is content
ObjectHead(role) ==
    <<"{", "\"", "r", "o", "l", "e", "\"", ":", " ", "\"">>
        \o (CASE role = "user" -> <<"u", "s", "e", "r">>
              [] role = "assistant" -> <<"a", "s", "s", "i", "s", "t", "a", "n", "t">>
              [] role = "system" -> <<"s", "y", "s", "t", "e", "m">>)
        \o <<"\"", ",", " ", "\"", "c", "o", "n", "t", "e", "n", "t", "\"", ":", " ", "\"">>

\* the line is a JSON object with the keys role and content only, holding msg
HoldsOnly(line, msg) ==
    LET head == ObjectHead(msg.role)
        body == SubSeq(line, Len(head) + 1, Len(line) - 2)
    IN  /\ Len(line) >= Len(head) + 2
        /\ SubSeq(line, 1, Len(head)) = head
        /\ SubSeq(line, Len(line) - 1, Len(line)) = <<"\"", "}">>
        /\ Unbroken(body)
        /\ Unescaped(body) = msg.content

LoaderCall == pc = "ready" /\ pc' = "called"

\* C14: a call that returns and was given a destination path leaves a file of
\* exactly one line per returned message, in the order of the returned sequence,
\* each line a JSON object holding only that message's role and content; a call
\* without a destination path leaves the file as it was.
C14_OneLinePerMessage ==
    [][LoaderCall =>
        /\ (ret'.status = "returned" /\ Truthy(output_file')) =>
                /\ file'.exists
                /\ file'.text # <<>> => file'.text[Len(file'.text)] = "\n"
                /\ Cardinality(Newlines(file'.text)) = Len(ret'.value)
                /\ \A k \in 1..Len(ret'.value) :
                        k <= Cardinality(Newlines(file'.text))
                            /\ HoldsOnly(LineOf(file'.text, k), ret'.value[k])
        /\ ~Truthy(output_file') => file' = file]_vars

C14_Witness ==
    /\ Returned
    /\ Truthy(output_file)
    /\ Len(ret.value) = 2
    /\ ret.value[1].role # ret.value[2].role
    /\ \E k \in 1..2 : \E p \in 1..Len(ret.value[k].content) : ret.value[k].content[p] = "\n"
    /\ Cardinality(Newlines(file.text)) = 2

\* C15: a call whose storage request fails leaves the destination file as it was:
\* not created, not truncated, not written.
C15_FailureLeavesFileUntouched ==
    [][(LoaderCall /\ storage.fail # "none") => file' = file]_vars

C15_Witness ==
    /\ pc = "called"
    /\ storage.fail # "none"
    /\ ret.status = "raised"
    /\ Truthy(output_file)
    /\ file = OldFile

====
